---- MODULE Spec2Model ----
(***************************************************************************)
(* Time-accounting engine of the attendance tracker                        *)
(* (js/services/TimeCalculator.js) and the service-worker update flow of   *)
(* the page (js/app.js).                                                   *)
(*                                                                         *)
(* Representation.                                                         *)
(*  - A JavaScript string is a sequence of one-character strings, so that  *)
(*    parsing and formatting are computed and not assumed.                 *)
(*  - A JavaScript object used as a map ({dateKey: [entries]}, byDay) is a *)
(*    sequence of [key, value] records with distinct keys, in insertion    *)
(*    order (the order Object.entries and Object.keys enumerate).          *)
(*  - A decimal number of hours (7.5, 6, 8.25) is the integer number of    *)
(*    hundredths of an hour (750, 600, 825).                               *)
(*  - null is NullMinutes for a number, NullString for a string and        *)
(*    NullResult for an object.                                            *)
(***************************************************************************)
EXTENDS Integers, Sequences, FiniteSets, TLC

VARIABLES
    weekEntries,   \* the {dateKey: [entries]} object the engine is handed
    call,          \* the last method called, with its arguments
    result,        \* what that call returned
    registered,    \* registerServiceWorker has attached its listeners
    controller,    \* navigator.serviceWorker.controller is set
    installing,    \* registration.installing holds a worker
    waiting,       \* registration.waiting holds a worker
    skipRequested, \* the waiting worker has been sent {action: 'skipWaiting'}
    checking,      \* a registration.update() is in flight
    visibility,    \* document.visibilityState
    banner,        \* the element #update-banner is in the document
    btnDisabled,   \* #update-btn is disabled
    clicks,        \* clicks on 'Aggiorna ora' so far
    posted,        \* skipWaiting messages posted by the page so far
    racing,        \* click handlers suspended at await Promise.race
    dataVerified,  \* verifyDataIntegrity has run in a click handler
    controllerChangeFired,  \* a controllerchange event has been dispatched
    reloaded       \* "no", or the path that called window.location.reload

engineVars == <<weekEntries, call, result>>

pageVars ==
    <<registered, controller, installing, waiting, skipRequested, checking,
      visibility, banner, btnDisabled, clicks, posted, racing, dataVerified,
      controllerChangeFired, reloaded>>

vars == <<engineVars, pageVars>>

\* the page before its load handler has run, no worker beside the active one
PageAtLoad ==
    /\ registered = FALSE
    /\ installing = FALSE
    /\ skipRequested = FALSE
    /\ checking = FALSE
    /\ visibility = "visible"
    /\ banner = FALSE
    /\ btnDisabled = FALSE
    /\ clicks = 0
    /\ posted = 0
    /\ racing = 0
    /\ dataVerified = FALSE
    /\ controllerChangeFired = FALSE
    /\ reloaded = "no"

\* the engine is used on a page whose update flow is at rest
PageIdle == PageAtLoad /\ controller = TRUE /\ waiting = FALSE

----------------------------------------------------------------------------
(* null / undefined *)

NullMinutes == 0 - 1
NullString == <<>>
NullResult == [isNull |-> TRUE]

----------------------------------------------------------------------------
(* CONFIG *)

WEEKLY_TARGET_MINUTES == 36 * 60
PAUSE_MINUTES == 30
PAUSE_THRESHOLD_HOURS == 6
\* hundredths of an hour
DAILY_TARGET_HOURS == 750
\* hundredths of an hour
FRIDAY_TARGET_HOURS == 600

----------------------------------------------------------------------------
(* Strings *)

Digits == <<"0", "1", "2", "3", "4", "5", "6", "7", "8", "9">>

IsDigit(c) == \E i \in 1..10 : Digits[i] = c

DigitVal(c) == (CHOOSE i \in 1..10 : Digits[i] = c) - 1

\* UTF-16 code unit of the characters that occur in keys and times
CharCode(c) ==
    IF c = "-" THEN 45
    ELSE IF IsDigit(c) THEN 48 + DigitVal(c)
    ELSE IF c = ":" THEN 58
    ELSE 120

Max(a, b) == IF a > b THEN a ELSE b

Min(a, b) == IF a < b THEN a ELSE b

Abs(n) == IF n < 0 THEN 0 - n ELSE n

RECURSIVE NatToString(_)
NatToString(n) ==
    IF n < 10 THEN <<Digits[n + 1]>>
    ELSE NatToString(n \div 10) \o <<Digits[(n % 10) + 1]>>

Pad2(n) == IF n < 10 THEN <<"0">> \o NatToString(n) ELSE NatToString(n)

\* Math.round on a non-negative quotient num/den: floor(num/den + 1/2)
RoundDiv(num, den) == (2 * num + den) \div (2 * den)

----------------------------------------------------------------------------
(* utils/Validators.js *)

parseTimeToMinutes(s) ==
    IF /\ Len(s) = 5
       /\ IsDigit(s[1]) /\ IsDigit(s[2])
       /\ s[3] = ":"
       /\ IsDigit(s[4]) /\ IsDigit(s[5])
       /\ 10 * DigitVal(s[1]) + DigitVal(s[2]) <= 23
       /\ 10 * DigitVal(s[4]) + DigitVal(s[5]) <= 59
    THEN (10 * DigitVal(s[1]) + DigitVal(s[2])) * 60
         + 10 * DigitVal(s[4]) + DigitVal(s[5])
    ELSE NullMinutes

minutesToTime(m) ==
    (IF m < 0 THEN <<"-">> ELSE <<>>)
        \o Pad2(Abs(m) \div 60) \o <<":">> \o Pad2(Abs(m) % 60)

----------------------------------------------------------------------------
(* utils/DateUtils.js *)

\* "YYYY-MM-DD" to the local date built from its year, month and day
parseDateISO(dk) ==
    [year  |-> 1000 * DigitVal(dk[1]) + 100 * DigitVal(dk[2])
               + 10 * DigitVal(dk[3]) + DigitVal(dk[4]),
     month |-> 10 * DigitVal(dk[6]) + DigitVal(dk[7]),
     day   |-> 10 * DigitVal(dk[9]) + DigitVal(dk[10])]

MonthOffset == <<0, 3, 2, 5, 0, 3, 5, 1, 4, 6, 2, 4>>

\* Date.prototype.getDay: 0 = Sunday .. 6 = Saturday (Gregorian calendar)
getDay(date) ==
    LET y == IF date.month < 3 THEN date.year - 1 ELSE date.year
    IN  (y + (y \div 4) - (y \div 100) + (y \div 400)
           + MonthOffset[date.month] + date.day) % 7

isFriday(date) == getDay(date) = 5

----------------------------------------------------------------------------
(* JavaScript objects as maps, in insertion order *)

ObjectKeys(obj) == [i \in 1..Len(obj) |-> obj[i].key]

HasKey(obj, k) == \E i \in 1..Len(obj) : obj[i].key = k

Get(obj, k) == obj[CHOOSE i \in 1..Len(obj) : obj[i].key = k].value

\* a < b in the order of the default sort: by UTF-16 code units, a proper
\* prefix first
RECURSIVE StringLess(_, _)
StringLess(a, b) ==
    IF Len(b) = 0 THEN FALSE
    ELSE IF Len(a) = 0 THEN TRUE
    ELSE IF CharCode(Head(a)) # CharCode(Head(b))
         THEN CharCode(Head(a)) < CharCode(Head(b))
    ELSE StringLess(Tail(a), Tail(b))

RECURSIVE InsertSorted(_, _)
InsertSorted(k, sorted) ==
    IF Len(sorted) = 0 THEN <<k>>
    ELSE IF StringLess(k, Head(sorted)) THEN <<k>> \o sorted
    ELSE <<Head(sorted)>> \o InsertSorted(k, Tail(sorted))

\* Array.prototype.sort with the default comparison
RECURSIVE Sort(_)
Sort(keys) ==
    IF Len(keys) = 0 THEN <<>>
    ELSE InsertSorted(Head(keys), Sort(Tail(keys)))

----------------------------------------------------------------------------
(* services/TimeCalculator.js *)

TimesOfType(entries, type) ==
    LET sel == SelectSeq(entries, LAMBDA e : e.type = type)
    IN  [i \in 1..Len(sel) |-> sel[i].time]

\* the loop adding every difference, positive or not
RECURSIVE PairLoop_SignedDiff(_, _, _, _, _, _)
PairLoop_SignedDiff(entrate, uscite, pairs, i, workedMinutes, breakMinutes) ==
    IF ~(i < pairs) THEN [workedMinutes |-> workedMinutes,
                          breakMinutes |-> breakMinutes]
    ELSE
      LET entrataMinutes == parseTimeToMinutes(entrate[i + 1])
          uscitaMinutes == parseTimeToMinutes(uscite[i + 1])
          worked1 ==
              IF entrataMinutes # NullMinutes /\ uscitaMinutes # NullMinutes
              THEN workedMinutes + (uscitaMinutes - entrataMinutes)
              ELSE workedMinutes
          break1 ==
              IF i < pairs - 1
              THEN LET nextEntryMin == parseTimeToMinutes(entrate[i + 2])
                   IN  IF /\ uscitaMinutes # NullMinutes
                          /\ nextEntryMin # NullMinutes
                       THEN breakMinutes + (nextEntryMin - uscitaMinutes)
                       ELSE breakMinutes
              ELSE breakMinutes
      IN  PairLoop_SignedDiff(entrate, uscite, pairs, i + 1, worked1, break1)

\* the loop without the null tests, a null operand counting as 0
RECURSIVE PairLoop_NullAsZero(_, _, _, _, _, _)
PairLoop_NullAsZero(entrate, uscite, pairs, i, workedMinutes, breakMinutes) ==
    IF ~(i < pairs) THEN [workedMinutes |-> workedMinutes,
                          breakMinutes |-> breakMinutes]
    ELSE
      LET entrataMinutes == Max(0, parseTimeToMinutes(entrate[i + 1]))
          uscitaMinutes == Max(0, parseTimeToMinutes(uscite[i + 1]))
          diff == uscitaMinutes - entrataMinutes
          worked1 == IF diff > 0 THEN workedMinutes + diff ELSE workedMinutes
          break1 ==
              IF i < pairs - 1
              THEN LET nextEntryMin ==
                           Max(0, parseTimeToMinutes(entrate[i + 2]))
                   IN  IF nextEntryMin > uscitaMinutes
                       THEN breakMinutes + (nextEntryMin - uscitaMinutes)
                       ELSE breakMinutes
              ELSE breakMinutes
      IN  PairLoop_NullAsZero(entrate, uscite, pairs, i + 1, worked1, break1)

\* the body of the for loop of calculatePairMinutes, from index i (0-based)
RECURSIVE PairLoop(_, _, _, _, _, _)
PairLoop(entrate, uscite, pairs, i, workedMinutes, breakMinutes) ==
    IF ~(i < pairs) THEN [workedMinutes |-> workedMinutes,
                          breakMinutes |-> breakMinutes]
    ELSE
      LET entrataMinutes == parseTimeToMinutes(entrate[i + 1])
          uscitaMinutes == parseTimeToMinutes(uscite[i + 1])
          diff == uscitaMinutes - entrataMinutes
          worked1 ==
              IF /\ entrataMinutes # NullMinutes
                 /\ uscitaMinutes # NullMinutes
                 /\ diff > 0
              THEN workedMinutes + diff
              ELSE workedMinutes
          exitMin == parseTimeToMinutes(uscite[i + 1])
          break1 ==
              IF i < pairs - 1
              THEN LET nextEntryMin == parseTimeToMinutes(entrate[i + 2])
                   IN  IF /\ exitMin # NullMinutes
                          /\ nextEntryMin # NullMinutes
                          /\ nextEntryMin > exitMin
                       THEN breakMinutes + (nextEntryMin - exitMin)
                       ELSE breakMinutes
              ELSE breakMinutes
      IN  PairLoop(entrate, uscite, pairs, i + 1, worked1, break1)

calculatePairMinutes(entries) ==
    LET entrate == TimesOfType(entries, "entrata")
        uscite == TimesOfType(entries, "uscita")
        hasIncomplete == Len(entrate) > Len(uscite)
        pairs == Min(Len(entrate), Len(uscite))
        sums == PairLoop(entrate, uscite, pairs, 0, 0, 0)
    IN  [workedMinutes |-> sums.workedMinutes,
         hasIncomplete |-> hasIncomplete,
         pairCount |-> pairs,
         breakMinutes |-> sums.breakMinutes]

\* the threshold taken as "at least 6 hours"
shouldApplyPause_AtLeast(workedMinutes, dateKey) ==
    IF isFriday(parseDateISO(dateKey)) THEN FALSE
    ELSE workedMinutes >= PAUSE_THRESHOLD_HOURS * 60

shouldApplyPause(workedMinutes, dateKey) ==
    IF isFriday(parseDateISO(dateKey)) THEN FALSE
    ELSE \* workedMinutes / 60 > PAUSE_THRESHOLD_HOURS
         workedMinutes > PAUSE_THRESHOLD_HOURS * 60

\* the break policy without the Friday gate around it
DayPauseMinutes_NoFridayGate(pm, dateKey) ==
    IF pm.pairCount <= 1
    THEN IF shouldApplyPause(pm.workedMinutes, dateKey)
         THEN PAUSE_MINUTES ELSE 0
    ELSE IF pm.breakMinutes < PAUSE_MINUTES
         THEN PAUSE_MINUTES - pm.breakMinutes
         ELSE 0

\* the break policy that ignores the break of a day with two or more pairs
DayPauseMinutes_SinglePairOnly(pm, dateKey) ==
    LET friday == isFriday(parseDateISO(dateKey))
    IN  IF ~friday /\ pm.pairCount <= 1
             /\ shouldApplyPause(pm.workedMinutes, dateKey)
        THEN PAUSE_MINUTES
        ELSE 0

\* the pauseMinutes that calculateDayHours settles on
DayPauseMinutes(pm, dateKey) ==
    LET friday == isFriday(parseDateISO(dateKey))
    IN  IF ~friday
        THEN IF pm.pairCount <= 1
             THEN IF shouldApplyPause(pm.workedMinutes, dateKey)
                  THEN PAUSE_MINUTES ELSE 0
             ELSE IF pm.breakMinutes < PAUSE_MINUTES
                  THEN PAUSE_MINUTES - pm.breakMinutes
                  ELSE 0
        ELSE 0

\* entry.hours || 0
HoursOf(entry) == IF "hours" \in DOMAIN entry THEN entry.hours ELSE 0

hoursToMinutes(hours) == RoundDiv(hours * 60, 100)

\* the special-day test that knows smart working only
IsSpecialDay_SmartOnly(entries) ==
    /\ Len(entries) = 1
    /\ entries[1].type = "smart"

IsSpecialDay(entries) ==
    /\ Len(entries) = 1
    /\ entries[1].type \in {"smart", "assente"}

\* the special day put through the break policy of a single pair
SpecialDayMinutes_WithPause(entry, dateKey) ==
    LET minutes == RoundDiv(HoursOf(entry) * 60, 100)
    IN  IF shouldApplyPause(minutes, dateKey)
        THEN minutes - PAUSE_MINUTES
        ELSE minutes

\* the minutes credited for a smart/assente entry: Math.round(hours * 60)
SpecialDayMinutes(entry, dateKey) == RoundDiv(HoursOf(entry) * 60, 100)

\* the record calculateDayHours returns for a day of clock entries
ClockDayRecord(pm, pauseMinutes, netMinutes) ==
    [minutes |-> netMinutes,
     formatted |-> minutesToTime(netMinutes),
     hasIncomplete |-> pm.hasIncomplete,
     grossMinutes |-> pm.workedMinutes,
     pauseApplied |-> pauseMinutes > 0,
     breakMinutes |->
         IF pm.pairCount > 1 THEN pm.breakMinutes
         ELSE IF pauseMinutes > 0 THEN PAUSE_MINUTES ELSE 0]

\* the net without the floor at zero
NetMinutes_Unclamped(pm, pauseMinutes) ==
    ClockDayRecord(pm, pauseMinutes, pm.workedMinutes - pauseMinutes)

NetMinutes(pm, pauseMinutes) ==
    ClockDayRecord(pm, pauseMinutes, Max(0, pm.workedMinutes - pauseMinutes))

\* calculateDayHours from the pair minutes on: pause, net, record
ClockDayResult(pm, dateKey) == NetMinutes(pm, DayPauseMinutes(pm, dateKey))

SpecialDayRecord(minutes) ==
    [minutes |-> minutes, formatted |-> minutesToTime(minutes),
     hasIncomplete |-> FALSE]

calculateDayHours(entries, dateKey) ==
    IF Len(entries) = 0
    THEN SpecialDayRecord(0)
    ELSE IF IsSpecialDay(entries)
    THEN SpecialDayRecord(SpecialDayMinutes(entries[1], dateKey))
    ELSE ClockDayResult(calculatePairMinutes(entries), dateKey)

\* the Monday-Thursday target on every day
getDailyTarget_EveryDay(dateKey) == DAILY_TARGET_HOURS

getDailyTarget(dateKey) ==
    IF isFriday(parseDateISO(dateKey))
    THEN FRIDAY_TARGET_HOURS
    ELSE DAILY_TARGET_HOURS

formatDeltaMinutes(minutes) ==
    LET sign == IF minutes >= 0 THEN <<"+">> ELSE <<"-">>
        absMinutes == Abs(minutes)
        hours == absMinutes \div 60
        mins == absMinutes % 60
    IN  IF hours = 0
        THEN sign \o NatToString(mins) \o <<"m", "i", "n">>
        ELSE IF mins = 0
        THEN sign \o NatToString(hours) \o <<"h">>
        ELSE sign \o NatToString(hours) \o <<"h", " ">>
                  \o NatToString(mins) \o <<"m">>

\* the record calculateDayDelta returns
DeltaRecord(deltaMinutes, hasIncomplete) ==
    [minutes |-> deltaMinutes,
     formatted |-> formatDeltaMinutes(deltaMinutes),
     isPositive |-> deltaMinutes > 0,
     isNegative |-> deltaMinutes < 0,
     isNeutral |-> deltaMinutes = 0,
     hasIncomplete |-> hasIncomplete]

DeltaOf(dayHours, targetMinutes) ==
    DeltaRecord(dayHours.minutes - targetMinutes, dayHours.hasIncomplete)

calculateDayDelta(entries, dateKey) ==
    IF Len(entries) = 0 THEN NullResult
    ELSE IF Len(entries) = 1 /\ entries[1].type = "assente" THEN NullResult
    ELSE DeltaOf(calculateDayHours(entries, dateKey),
                 hoursToMinutes(getDailyTarget(dateKey)))

\* the loop that passes over the days without entries
RECURSIVE WeekLoop_SkipEmpty(_, _, _, _)
WeekLoop_SkipEmpty(obj, i, totalMinutes, byDay) ==
    IF i > Len(obj) THEN [totalMinutes |-> totalMinutes, byDay |-> byDay]
    ELSE IF Len(obj[i].value) = 0
    THEN WeekLoop_SkipEmpty(obj, i + 1, totalMinutes, byDay)
    ELSE LET dayResult == calculateDayHours(obj[i].value, obj[i].key)
         IN  WeekLoop_SkipEmpty(obj, i + 1, totalMinutes + dayResult.minutes,
                      Append(byDay, [key |-> obj[i].key, value |-> dayResult]))

\* the for loop of calculateWeekTotal over Object.entries, from position i
RECURSIVE WeekLoop(_, _, _, _)
WeekLoop(obj, i, totalMinutes, byDay) ==
    IF i > Len(obj) THEN [totalMinutes |-> totalMinutes, byDay |-> byDay]
    ELSE LET dayResult == calculateDayHours(obj[i].value, obj[i].key)
         IN  WeekLoop(obj, i + 1, totalMinutes + dayResult.minutes,
                      Append(byDay, [key |-> obj[i].key, value |-> dayResult]))

calculateWeekTotal(obj) ==
    LET sums == WeekLoop(obj, 1, 0, <<>>)
    IN  [minutes |-> sums.totalMinutes,
         formatted |-> minutesToTime(sums.totalMinutes),
         byDay |-> sums.byDay]

\* the accumulation that counts the days with an open clock-in too
ExtraStepDelta_CountIncomplete(delta, extraMinutes) ==
    IF delta # NullResult
    THEN extraMinutes + delta.minutes
    ELSE extraMinutes

\* if (delta && !delta.hasIncomplete) extraMinutes += delta.minutes
ExtraStepDelta(delta, extraMinutes) ==
    IF delta # NullResult /\ ~delta.hasIncomplete
    THEN extraMinutes + delta.minutes
    ELSE extraMinutes

\* one pass of the loop body: extraMinutes after the day dateKey
ExtraStep(dateKey, entries, fridayDateKey, extraMinutes) ==
    IF dateKey = fridayDateKey THEN extraMinutes
    ELSE IF Len(entries) = 0 THEN extraMinutes
    ELSE ExtraStepDelta(calculateDayDelta(entries, dateKey), extraMinutes)

\* the for loop of calculateFridayExitSuggestion over sortedDates
RECURSIVE ExtraLoop(_, _, _, _, _)
ExtraLoop(obj, sortedDates, fridayDateKey, i, extraMinutes) ==
    IF i > Len(sortedDates) THEN extraMinutes
    ELSE ExtraLoop(obj, sortedDates, fridayDateKey, i + 1,
                   ExtraStep(sortedDates[i], Get(obj, sortedDates[i]),
                             fridayDateKey, extraMinutes))

\* the Friday target without the floor at 0
AdjustedTarget_Unclamped(extraMinutes) ==
    hoursToMinutes(FRIDAY_TARGET_HOURS) - extraMinutes

\* adjustedTarget: the Friday target reduced by the accumulated extra
AdjustedTarget(extraMinutes) ==
    Max(0, hoursToMinutes(FRIDAY_TARGET_HOURS) - extraMinutes)

\* exitTime: from the first clock-in of a Friday that has no clock-out
FridayExitTime(fridayEntries, adjustedTarget) ==
    LET hasFridayEntrata == \E i \in 1..Len(fridayEntries) :
                                fridayEntries[i].type = "entrata"
        hasFridayUscita == \E i \in 1..Len(fridayEntries) :
                                fridayEntries[i].type = "uscita"
    IN  IF hasFridayEntrata /\ ~hasFridayUscita
        THEN LET entrataEntry == Head(SelectSeq(fridayEntries,
                                     LAMBDA e : e.type = "entrata"))
                 entrataMin == parseTimeToMinutes(entrataEntry.time)
             IN  IF entrataMin # NullMinutes
                 THEN minutesToTime(entrataMin + adjustedTarget)
                 ELSE NullString
        ELSE NullString

\* the record calculateFridayExitSuggestion returns
SuggestionRecord(fridayEntries, fridayDateKey, extraMinutes, adjustedTarget) ==
    [exitTime |-> FridayExitTime(fridayEntries, adjustedTarget),
     extraMinutes |-> extraMinutes,
     fridayTargetMinutes |-> adjustedTarget,
     fridayDateKey |-> fridayDateKey,
     hasFridayEntrata |-> \E i \in 1..Len(fridayEntries) :
                              fridayEntries[i].type = "entrata",
     hasFridayComplete |->
         /\ \E i \in 1..Len(fridayEntries) : fridayEntries[i].type = "uscita"
         /\ \E i \in 1..Len(fridayEntries) : fridayEntries[i].type = "entrata"]

\* calculateFridayExitSuggestion once extraMinutes is accumulated
SuggestionFor(fridayEntries, fridayDateKey, extraMinutes) ==
    IF IsSpecialDay(fridayEntries) THEN NullResult
    ELSE SuggestionRecord(fridayEntries, fridayDateKey, extraMinutes,
                          AdjustedTarget(extraMinutes))

\* calculateFridayExitSuggestion once the Friday is located
SuggestionOn(obj, sortedDates, fridayDateKey) ==
    SuggestionFor(Get(obj, fridayDateKey), fridayDateKey,
                  ExtraLoop(obj, sortedDates, fridayDateKey, 1, 0))

\* sortedDates.find(dk => isFriday(parseDateISO(dk))), then the rest
FindFriday(obj, sortedDates, fridays) ==
    IF Len(fridays) = 0 THEN NullResult
    ELSE SuggestionOn(obj, sortedDates, Head(fridays))

SuggestionSorted(obj, sortedDates) ==
    FindFriday(obj, sortedDates,
               SelectSeq(sortedDates, LAMBDA dk : isFriday(parseDateISO(dk))))

calculateFridayExitSuggestion(obj) ==
    IF Len(obj) = 0 THEN NullResult
    ELSE SuggestionSorted(obj, Sort(ObjectKeys(obj)))

----------------------------------------------------------------------------
(* Inputs *)

MaxEntries == 4

HHMM(h, m) == Pad2(h) \o <<":">> \o Pad2(m)

\* 2026-02-23 is a Monday, 2026-02-27 a Friday
DateKey(day) == <<"2", "0", "2", "6", "-", "0", "2", "-">> \o Pad2(day)

Tuesday == DateKey(24)

Thursday == DateKey(26)

Friday == DateKey(27)

Entrata(time) == [type |-> "entrata", time |-> time]

Uscita(time) == [type |-> "uscita", time |-> time]

\* 08:00, 14:00, 14:01, 14:20, 17:00 as minutes since midnight
ClockMinutes == {480, 840, 841, 860, 1020}

ClockTimes == {HHMM(m \div 60, m % 60) : m \in ClockMinutes}

ClockEntries == [type : {"entrata", "uscita"}, time : ClockTimes]

SpecialEntries ==
    [type : {"smart", "assente"}, hours : {0, 600, 726, 750}]
        \cup {[type |-> "smart"], [type |-> "assente"]}

SeqsUpTo(S, n) == UNION {[1..k -> S] : k \in 0..n}

\* the entry lists of one day: clock events in any order, or one special entry
DayLists == SeqsUpTo(ClockEntries, MaxEntries) \cup {<<e>> : e \in SpecialEntries}

DayDates == {Tuesday, Friday}

\* the entry lists a day of a whole week is drawn from
WeekDayLists ==
    { <<>>,
      <<Entrata(HHMM(8, 0)), Uscita(HHMM(17, 0))>>,
      <<Entrata(HHMM(8, 0)), Uscita(HHMM(14, 0))>>,
      <<Entrata(HHMM(7, 50))>>,
      <<Entrata(HHMM(8, 0)), Uscita(HHMM(17, 0)), Entrata(HHMM(17, 0))>>,
      <<[type |-> "smart", hours |-> 825]>>,
      <<[type |-> "smart", hours |-> 1400]>>,
      <<[type |-> "assente", hours |-> 750]>> }

WeekDates == {Tuesday, Thursday, Friday}

\* the orders in which distinct keys of WeekDates can have been inserted
KeyOrders ==
    { ks \in SeqsUpTo(WeekDates, Cardinality(WeekDates)) :
        \A i, j \in 1..Len(ks) : ks[i] = ks[j] => i = j }

----------------------------------------------------------------------------
(* The engine: every method is a pure function of the snapshot it is handed *)

NoCall == [op |-> "none"]

InitDay ==
    /\ weekEntries \in {<<[key |-> dk, value |-> es]>> :
                            dk \in DayDates, es \in DayLists}
    /\ call = NoCall
    /\ result = NullResult
    /\ PageIdle

\* the objects over distinct keys of WeekDates, in every insertion order
InitWeek ==
    /\ \E ks \in KeyOrders :
         \E vs \in [1..Len(ks) -> WeekDayLists] :
            weekEntries = [i \in 1..Len(ks) |-> [key |-> ks[i], value |-> vs[i]]]
    /\ call = NoCall
    /\ result = NullResult
    /\ PageIdle

CalculateDayHours(i) ==
    /\ call' = [op |-> "calculateDayHours", entries |-> weekEntries[i].value,
                dateKey |-> weekEntries[i].key]
    /\ result' = calculateDayHours(weekEntries[i].value, weekEntries[i].key)
    /\ UNCHANGED <<weekEntries, pageVars>>

CalculatePairMinutes(i) ==
    /\ call' = [op |-> "calculatePairMinutes",
                entries |-> weekEntries[i].value]
    /\ result' = calculatePairMinutes(weekEntries[i].value)
    /\ UNCHANGED <<weekEntries, pageVars>>

CalculateDayDelta(i) ==
    /\ call' = [op |-> "calculateDayDelta", entries |-> weekEntries[i].value,
                dateKey |-> weekEntries[i].key]
    /\ result' = calculateDayDelta(weekEntries[i].value, weekEntries[i].key)
    /\ UNCHANGED <<weekEntries, pageVars>>

CalculateWeekTotal ==
    /\ call' = [op |-> "calculateWeekTotal"]
    /\ result' = calculateWeekTotal(weekEntries)
    /\ UNCHANGED <<weekEntries, pageVars>>

CalculateFridayExitSuggestion ==
    /\ call' = [op |-> "calculateFridayExitSuggestion"]
    /\ result' = calculateFridayExitSuggestion(weekEntries)
    /\ UNCHANGED <<weekEntries, pageVars>>

NextDay ==
    \/ \E i \in 1..Len(weekEntries) : CalculateDayHours(i)
    \/ \E i \in 1..Len(weekEntries) : CalculatePairMinutes(i)
    \/ \E i \in 1..Len(weekEntries) : CalculateDayDelta(i)

Next ==
    \/ NextDay
    \/ CalculateWeekTotal
    \/ CalculateFridayExitSuggestion

\* the per-day methods on one day, every list of clock events up to MaxEntries
Spec == InitDay /\ [][NextDay]_vars

\* every method on a week, every subset of WeekDates in every insertion order
SpecWeek == InitWeek /\ [][Next]_vars

----------------------------------------------------------------------------
(* What the claims speak of, stated on the entries themselves *)

IsClockList(entries) ==
    \A i \in 1..Len(entries) : entries[i].type \in {"entrata", "uscita"}

Indices(entries, type) == {i \in 1..Len(entries) : entries[i].type = type}

\* the position in entries of the k-th entry of the type (k from 1)
KthIndex(entries, type, k) ==
    CHOOSE i \in Indices(entries, type) :
        Cardinality({j \in Indices(entries, type) : j <= i}) = k

\* the minutes since midnight a time of ClockTimes was written from
MinutesOf(time) == CHOOSE m \in ClockMinutes : HHMM(m \div 60, m % 60) = time

KthMinutes(entries, type, k) ==
    MinutesOf(entries[KthIndex(entries, type, k)].time)

PairsOf(entries) ==
    Min(Cardinality(Indices(entries, "entrata")),
        Cardinality(Indices(entries, "uscita")))

OpenClockIn(entries) ==
    Cardinality(Indices(entries, "entrata"))
        > Cardinality(Indices(entries, "uscita"))

Positive(n) == IF n > 0 THEN n ELSE 0

RECURSIVE SumTo(_, _)
SumTo(n, f) == IF n <= 0 THEN 0 ELSE f[n] + SumTo(n - 1, f)

\* the worked intervals out[k] - in[k], each counted when positive
WorkedOf(entries) ==
    SumTo(PairsOf(entries),
          [k \in 1..PairsOf(entries) |->
              Positive(KthMinutes(entries, "uscita", k)
                       - KthMinutes(entries, "entrata", k))])

\* the gaps in[k+1] - out[k] between pairs, each counted when positive
GapOf(entries) ==
    SumTo(PairsOf(entries) - 1,
          [k \in 1..(PairsOf(entries) - 1) |->
              Positive(KthMinutes(entries, "entrata", k + 1)
                       - KthMinutes(entries, "uscita", k))])

DayHoursCalled == call.op = "calculateDayHours"

----------------------------------------------------------------------------
C2_SinglePairThreshold ==
    (/\ DayHoursCalled /\ call.dateKey = Tuesday
     /\ IsClockList(call.entries) /\ Len(call.entries) > 0
     /\ PairsOf(call.entries) <= 1)
        => /\ result.grossMinutes = WorkedOf(call.entries)
           /\ result.pauseApplied = (result.grossMinutes > 360)
           /\ result.minutes = IF result.grossMinutes > 360
                               THEN result.grossMinutes - 30
                               ELSE result.grossMinutes
           /\ (result.grossMinutes = 360 => result.minutes = 360)
           /\ (result.grossMinutes = 361 => result.minutes = 331)

\* Tuesday 08:00-14:01: gross 361, net 331, pause applied
C2_Witness ==
    /\ DayHoursCalled /\ call.dateKey = Tuesday
    /\ call.entries = <<Entrata(HHMM(8, 0)), Uscita(HHMM(14, 1))>>
    /\ result.grossMinutes = 361
    /\ result.minutes = 331
    /\ result.pauseApplied

C4_PairResolver ==
    (call.op = "calculatePairMinutes")
        => /\ result.pairCount = PairsOf(call.entries)
           /\ result.hasIncomplete = OpenClockIn(call.entries)
           /\ result.workedMinutes = WorkedOf(call.entries)
           /\ result.breakMinutes = GapOf(call.entries)
           /\ result.workedMinutes >= 0
           /\ result.breakMinutes >= 0

\* in 14:01, in 14:20, out 14:00, out 17:00: the first pair runs backwards
C4_Witness ==
    /\ call.op = "calculatePairMinutes"
    /\ call.entries = <<Entrata(HHMM(14, 1)), Entrata(HHMM(14, 20)),
                        Uscita(HHMM(14, 0)), Uscita(HHMM(17, 0))>>
    /\ result.pairCount = 2
    /\ result.workedMinutes = 160
    /\ result.breakMinutes = 20
    /\ ~result.hasIncomplete

\* decimal hours times 60, to the nearest minute
NearestMinutes(hours) ==
    CHOOSE n \in 0..(hours + 1) :
        100 * n - 50 <= 60 * hours /\ 60 * hours < 100 * n + 50

(* C5: when the entry list of a day is exactly one smart or assente entry, *)
(* calculateDayHours returns minutes = round(hours x 60) and hasIncomplete *)
(* = false, and no break is deducted on any weekday, hours above 6 on a    *)
(* non-Friday included (7.5 hours give 450, not 420).                      *)
C5_SpecialDay ==
    (/\ DayHoursCalled /\ Len(call.entries) = 1
     /\ call.entries[1].type \in {"smart", "assente"})
        => LET entry == call.entries[1]
               hours == IF "hours" \in DOMAIN entry THEN entry.hours ELSE 0
           IN  /\ result.minutes = NearestMinutes(hours)
               /\ result.hasIncomplete = FALSE
               /\ (hours = 750 => result.minutes = 450)

\* a smart-working Tuesday of 7.5 hours
C5_Witness ==
    /\ DayHoursCalled /\ call.dateKey = Tuesday
    /\ call.entries = <<[type |-> "smart", hours |-> 750]>>
    /\ result.minutes = 450
    /\ ~result.hasIncomplete

(* C6: calculateDayDelta returns null exactly when the day has no entries  *)
(* or is a sole assente entry; otherwise minutes = calculateDayHours(...)  *)
(* .minutes - target, the target being 360 on a Friday and 450 on any      *)
(* other day, exactly one of isPositive, isNegative, isNeutral is true and *)
(* it is the sign of minutes, and hasIncomplete is the one of the day      *)
(* result (Tuesday 08:00-17:00: gross 540, net 510, delta +60).            *)
C6_DayDelta ==
    (call.op = "calculateDayDelta")
        => IF \/ Len(call.entries) = 0
              \/ Len(call.entries) = 1 /\ call.entries[1].type = "assente"
           THEN result = NullResult
           ELSE LET day == calculateDayHours(call.entries, call.dateKey)
                    target == IF call.dateKey = Friday THEN 360 ELSE 450
                IN  /\ result # NullResult
                    /\ result.minutes = day.minutes - target
                    /\ result.isPositive = (result.minutes > 0)
                    /\ result.isNegative = (result.minutes < 0)
                    /\ result.isNeutral = (result.minutes = 0)
                    /\ Cardinality({f \in {"isPositive", "isNegative",
                                           "isNeutral"} : result[f]}) = 1
                    /\ result.hasIncomplete = day.hasIncomplete

\* Tuesday 08:00-17:00
C6_Witness ==
    /\ call.op = "calculateDayDelta" /\ call.dateKey = Tuesday
    /\ call.entries = <<Entrata(HHMM(8, 0)), Uscita(HHMM(17, 0))>>
    /\ calculateDayHours(call.entries, call.dateKey).grossMinutes = 540
    /\ calculateDayHours(call.entries, call.dateKey).minutes = 510
    /\ result.minutes = 60
    /\ result.isPositive /\ ~result.isNegative /\ ~result.isNeutral

KeysOf(obj) == {obj[i].key : i \in 1..Len(obj)}

RECURSIVE SumOver(_, _)
SumOver(K, f) ==
    IF K = {} THEN 0
    ELSE LET k == CHOOSE x \in K : TRUE
         IN  f[k] + SumOver(K \ {k}, f)

(* C7: for every mapping from date keys to entry lists, any subset of the  *)
(* days in any key order, calculateWeekTotal returns minutes = the sum of  *)
(* calculateDayHours(...).minutes over exactly the date keys present, and  *)
(* byDay has exactly the date keys of the input, each mapped to the result *)
(* of that day; a date key that is not in the input adds nothing and is    *)
(* not in byDay.                                                           *)
C7_WeekTotal ==
    (call.op = "calculateWeekTotal")
        => /\ result.minutes =
                  SumOver(KeysOf(weekEntries),
                          [k \in KeysOf(weekEntries) |->
                              calculateDayHours(Get(weekEntries, k), k).minutes])
           /\ KeysOf(result.byDay) = KeysOf(weekEntries)
           /\ Len(result.byDay) = Len(weekEntries)
           /\ \A k \in KeysOf(weekEntries) :
                  Get(result.byDay, k)
                      = calculateDayHours(Get(weekEntries, k), k)
           /\ \A k \in WeekDates \ KeysOf(weekEntries) :
                  ~HasKey(result.byDay, k)

\* Friday inserted before Tuesday, one of them without entries, no Thursday
C7_Witness ==
    /\ call.op = "calculateWeekTotal"
    /\ ObjectKeys(weekEntries) = <<Friday, Tuesday>>
    /\ Get(weekEntries, Friday) = <<>>
    /\ Get(weekEntries, Tuesday)
           = <<Entrata(HHMM(8, 0)), Uscita(HHMM(17, 0))>>
    /\ result.minutes = 510
    /\ ObjectKeys(result.byDay) = <<Friday, Tuesday>>

FridayExitCalled == call.op = "calculateFridayExitSuggestion"

(* C8: if the week map has no date key that is a Friday, or the entry list *)
(* of the Friday is a sole smart or assente entry,                         *)
(* calculateFridayExitSuggestion returns null; in every other case (the    *)
(* Friday key present with an empty list or with clock entries) it returns *)
(* a suggestion that carries the date key of that Friday.                  *)
C8_FridaySuggestionNull ==
    FridayExitCalled
        => IF \/ Friday \notin KeysOf(weekEntries)
              \/ LET entries == Get(weekEntries, Friday)
                 IN  /\ Len(entries) = 1
                     /\ entries[1].type \in {"smart", "assente"}
           THEN result = NullResult
           ELSE result # NullResult /\ result.fridayDateKey = Friday

\* a Friday key with no entries yet, inserted before the other days
C8_Witness ==
    /\ FridayExitCalled
    /\ Len(weekEntries) = 3
    /\ weekEntries[1].key = Friday
    /\ Get(weekEntries, Friday) = <<>>
    /\ result # NullResult
    /\ result.fridayDateKey = Friday

\* the days that count towards the extra of the week
ExtraDays(obj) ==
    {k \in KeysOf(obj) :
        /\ k # Friday
        /\ Len(Get(obj, k)) > 0
        /\ ~(Len(Get(obj, k)) = 1 /\ Get(obj, k)[1].type = "assente")
        /\ ~OpenClockIn(Get(obj, k))}

C10_AdjustedTarget ==
    (FridayExitCalled /\ result # NullResult)
        => /\ result.fridayTargetMinutes
                  = (IF result.extraMinutes >= 360 THEN 0
                     ELSE 360 - result.extraMinutes)
           /\ result.fridayTargetMinutes >= 0
           /\ (result.extraMinutes = 45 => result.fridayTargetMinutes = 315)
           /\ (result.extraMinutes < 0 => result.fridayTargetMinutes > 360)

\* a surplus of more than 360 minutes before Friday
C10_Witness ==
    /\ FridayExitCalled /\ result # NullResult
    /\ result.extraMinutes > 360
    /\ result.fridayTargetMinutes = 0

\* the minutes since midnight of a well-formed time
MinutesOfTime(time) ==
    CHOOSE m \in 0..1439 : HHMM(m \div 60, m % 60) = time

\* the first clock-in left without a clock-out, pairing k-th in with k-th out
OpenClockInTime(entries) ==
    entries[KthIndex(entries, "entrata",
                     Cardinality(Indices(entries, "uscita")) + 1)].time

(* C11: for every Friday list of clock events,                             *)
(* calculateFridayExitSuggestion returns exitTime = the time of the open   *)
(* clock-in + the adjusted target whenever the Friday has an open clock-in *)
(* with no matching clock-out (in, out, in included), and exitTime = null  *)
(* whenever the Friday has no clock-in or every clock-in is matched;       *)
(* clock-in 07:50 alone with target 315 gives 13:05.                       *)
C11_ExitTime ==
    (FridayExitCalled /\ result # NullResult)
        => LET entries == Get(weekEntries, Friday)
               exit == MinutesOfTime(OpenClockInTime(entries))
                           + result.fridayTargetMinutes
           IN  IF OpenClockIn(entries)
               THEN result.exitTime = HHMM(exit \div 60, exit % 60)
               ELSE result.exitTime = NullString

-----------------------------------------------------------------------------
(* The weekly balance and the time remaining to the weekly target *)

calculateBalance_NonNegativePositive(workedMinutes) ==
    LET balanceMinutes == workedMinutes - WEEKLY_TARGET_MINUTES
    IN  [minutes    |-> balanceMinutes,
         formatted  |-> (IF balanceMinutes >= 0 THEN <<"+">> ELSE <<>>)
                            \o minutesToTime(balanceMinutes),
         isPositive |-> balanceMinutes >= 0,
         isNegative |-> balanceMinutes < 0,
         isNeutral  |-> balanceMinutes = 0]

calculateBalance(workedMinutes) ==
    LET balanceMinutes == workedMinutes - WEEKLY_TARGET_MINUTES
    IN  [minutes    |-> balanceMinutes,
         formatted  |-> (IF balanceMinutes >= 0 THEN <<"+">> ELSE <<>>)
                            \o minutesToTime(balanceMinutes),
         isPositive |-> balanceMinutes > 0,
         isNegative |-> balanceMinutes < 0,
         isNeutral  |-> balanceMinutes = 0]

calculateRemaining_Unclamped(workedMinutes) ==
    LET remaining == WEEKLY_TARGET_MINUTES - workedMinutes
    IN  [minutes |-> remaining, formatted |-> minutesToTime(remaining)]

calculateRemaining(workedMinutes) ==
    LET remaining == Max(0, WEEKLY_TARGET_MINUTES - workedMinutes)
    IN  [minutes |-> remaining, formatted |-> minutesToTime(remaining)]

\* the worked minutes tried: nothing worked, and every total within
\* BalanceSpan minutes of the weekly target on either side
BalanceSpan == 60

WorkedInputs ==
    {0} \cup ((WEEKLY_TARGET_MINUTES - BalanceSpan)
                  ..(WEEKLY_TARGET_MINUTES + BalanceSpan))

InitTotals ==
    /\ weekEntries = <<>>
    /\ call = NoCall
    /\ result = NullResult
    /\ PageIdle

CalculateBalance(w) ==
    /\ call' = [op |-> "calculateBalance", workedMinutes |-> w]
    /\ result' = calculateBalance(w)
    /\ UNCHANGED <<weekEntries, pageVars>>

CalculateRemaining(w) ==
    /\ call' = [op |-> "calculateRemaining", workedMinutes |-> w]
    /\ result' = calculateRemaining(w)
    /\ UNCHANGED <<weekEntries, pageVars>>

NextTotals ==
    \/ \E w \in WorkedInputs : CalculateBalance(w)
    \/ \E w \in WorkedInputs : CalculateRemaining(w)

SpecTotals == InitTotals /\ [][NextTotals]_vars

(* C12: for every worked-minutes value w, calculateBalance returns         *)
(* minutes = w - 2160 and exactly one of isPositive, isNegative and        *)
(* isNeutral is true; w = 2160 is neutral, w = 2100 is negative with -60.  *)
C12_Balance ==
    (call.op = "calculateBalance")
        => LET w == call.workedMinutes
           IN  /\ result.minutes = w - 2160
               /\ Cardinality({f \in {"isPositive", "isNegative", "isNeutral"} :
                                   result[f]}) = 1
               /\ result.isPositive <=> w > 2160
               /\ result.isNegative <=> w < 2160
               /\ result.isNeutral <=> w = 2160
               /\ (w = 2100) => (result.minutes = 0 - 60 /\ result.isNegative)

C12_Witness ==
    /\ call.op = "calculateBalance"
    /\ call.workedMinutes = 2100
    /\ result.minutes = 0 - 60
    /\ result.isNegative /\ ~result.isPositive /\ ~result.isNeutral

(* C13: for every worked-minutes value w, calculateRemaining returns       *)
(* minutes = max(0, 2160 - w), which is never negative and is 0 exactly    *)
(* when the balance of the same w is not negative.                         *)
C13_Remaining ==
    (call.op = "calculateRemaining")
        => LET w == call.workedMinutes
           IN  /\ result.minutes = (IF w >= 2160 THEN 0 ELSE 2160 - w)
               /\ result.minutes >= 0
               /\ (result.minutes = 0) <=> (calculateBalance(w).minutes >= 0)

C13_Witness ==
    /\ call.op = "calculateRemaining"
    /\ call.workedMinutes > 2160
    /\ result.minutes = 0
    /\ calculateBalance(call.workedMinutes).isPositive

-----------------------------------------------------------------------------
(* Day lists holding times that do not parse *)

\* "25:00" (hour out of range) and "8:00" (one-digit hour)
MalformedTimes == {<<"2", "5", ":", "0", "0">>, <<"8", ":", "0", "0">>}

\* 08:00, 14:00 and 14:20 next to the malformed times
MalformedDayTimes ==
    {HHMM(8, 0), HHMM(14, 0), HHMM(14, 20)} \cup MalformedTimes

MalformedDayLists ==
    SeqsUpTo([type : {"entrata", "uscita"}, time : MalformedDayTimes],
             MaxEntries)

InitMalformed ==
    /\ weekEntries \in {<<[key |-> Tuesday, value |-> es]>> :
                            es \in MalformedDayLists}
    /\ call = NoCall
    /\ result = NullResult
    /\ PageIdle

SpecMalformed == InitMalformed /\ [][NextDay]_vars

WellFormed(time) == time \in ClockTimes

KthTime(entries, type, k) == entries[KthIndex(entries, type, k)].time

\* the pairs whose two times both parse
SoundPairs(entries) ==
    {k \in 1..PairsOf(entries) :
        /\ WellFormed(KthTime(entries, "entrata", k))
        /\ WellFormed(KthTime(entries, "uscita", k))}

\* the boundaries between pair k and pair k + 1 whose two times both parse
SoundBoundaries(entries) ==
    {k \in 1..(PairsOf(entries) - 1) :
        /\ WellFormed(KthTime(entries, "uscita", k))
        /\ WellFormed(KthTime(entries, "entrata", k + 1))}

HasMalformed(entries) ==
    \E i \in 1..Len(entries) : ~WellFormed(entries[i].time)

(* C14: when the time of a clock entry does not parse,                     *)
(* calculatePairMinutes still returns its result: a pair holding that time *)
(* adds zero worked minutes, a boundary touching that time adds zero break *)
(* minutes, and every other pair and boundary of the day adds exactly what *)
(* it adds otherwise.                                                      *)
C14_Malformed ==
    (call.op = "calculatePairMinutes" /\ HasMalformed(call.entries))
        => LET es == call.entries
               pairs == PairsOf(es)
           IN  /\ DOMAIN result = {"workedMinutes", "hasIncomplete",
                                   "pairCount", "breakMinutes"}
               /\ result.pairCount = pairs
               /\ result.hasIncomplete = OpenClockIn(es)
               /\ result.workedMinutes =
                    SumTo(pairs,
                          [k \in 1..pairs |->
                              IF k \in SoundPairs(es)
                              THEN Positive(KthMinutes(es, "uscita", k)
                                            - KthMinutes(es, "entrata", k))
                              ELSE 0])
               /\ result.breakMinutes =
                    SumTo(pairs - 1,
                          [k \in 1..(pairs - 1) |->
                              IF k \in SoundBoundaries(es)
                              THEN Positive(KthMinutes(es, "entrata", k + 1)
                                            - KthMinutes(es, "uscita", k))
                              ELSE 0])

\* in 08:00, out 25:00, in 14:00, out 14:20: the first pair and the boundary
\* after it count nothing, the second pair counts its 20 minutes
C14_Witness ==
    /\ call.op = "calculatePairMinutes"
    /\ call.entries = <<Entrata(HHMM(8, 0)), Uscita(<<"2", "5", ":", "0", "0">>),
                        Entrata(HHMM(14, 0)), Uscita(HHMM(14, 20))>>
    /\ result.pairCount = 2
    /\ result.workedMinutes = 20
    /\ result.breakMinutes = 0

-----------------------------------------------------------------------------
(* C15: on a Friday the break is applied when the gross hours exceed 6     *)
(* hours, as on every other day: the isFriday gate selects the daily       *)
(* target and does not exclude the break deduction in calculateDayHours,   *)
(* so a Friday list gets the minutes and the pauseApplied flag the same    *)
(* list gets on a Tuesday, and a single pair of more than 360 gross        *)
(* minutes loses 30.                                                       *)
C15_FridayBreakAsOtherDays ==
    (/\ DayHoursCalled /\ call.dateKey = Friday
     /\ IsClockList(call.entries) /\ Len(call.entries) > 0)
        => /\ result.minutes = calculateDayHours(call.entries, Tuesday).minutes
           /\ result.pauseApplied
                = calculateDayHours(call.entries, Tuesday).pauseApplied
           /\ (PairsOf(call.entries) <= 1 /\ WorkedOf(call.entries) > 360)
                => /\ result.pauseApplied
                   /\ result.minutes = WorkedOf(call.entries) - 30

-----------------------------------------------------------------------------
(* C18: for every date key and every list of clock entries the result of   *)
(* calculateDayHours satisfies 0 <= minutes <= grossMinutes and            *)
(* grossMinutes - minutes <= 30: the net is never negative and never more  *)
(* than 30 minutes under the gross, and it is the gross when no break is   *)
(* applied.  The empty list returns minutes 0 and no grossMinutes field.   *)
C18_NetWithinGross ==
    (DayHoursCalled /\ IsClockList(call.entries))
        => IF Len(call.entries) = 0
           THEN result.minutes = 0 /\ "grossMinutes" \notin DOMAIN result
           ELSE /\ 0 <= result.minutes
                /\ result.minutes <= result.grossMinutes
                /\ result.grossMinutes - result.minutes <= 30
                /\ ~result.pauseApplied => result.minutes = result.grossMinutes

\* two short pairs with no gap: gross under 30, the whole of it deducted
C18_Witness ==
    /\ DayHoursCalled /\ call.dateKey = Tuesday
    /\ "grossMinutes" \in DOMAIN result
    /\ result.grossMinutes \in 1..29
    /\ result.pauseApplied
    /\ result.minutes = 0

-----------------------------------------------------------------------------
(* js/app.js: registration of the service worker and the update banner.    *)
(* A handler runs to its end or to its next await in one step; the         *)
(* continuation of an await runs in the step of the event that settles it. *)

\* clicks on 'Aggiorna ora' followed in one life of the page
MaxClicks == 2

PageAlive == reloaded = "no"

\* the page is loaded with or without a controlling worker, and with or
\* without a worker left waiting by an earlier visit
InitUpdate ==
    /\ weekEntries = <<>>
    /\ call = NoCall
    /\ result = NullResult
    /\ PageAtLoad
    /\ controller \in BOOLEAN
    /\ waiting \in BOOLEAN

\* registerServiceWorker: listeners attached, banner for a worker already
\* waiting, first update check started
RegisterServiceWorker ==
    /\ PageAlive
    /\ ~registered
    /\ registered' = TRUE
    /\ banner' = (banner \/ (waiting /\ controller))
    /\ checking' = TRUE
    /\ UNCHANGED <<engineVars, controller, installing, waiting, skipRequested,
                   visibility, btnDisabled, clicks, posted, racing,
                   dataVerified, controllerChangeFired, reloaded>>

\* the visibilitychange listener: an update check when the page comes back
VisibilityChange ==
    /\ PageAlive
    /\ visibility' = (IF visibility = "visible" THEN "hidden" ELSE "visible")
    /\ checking' = (checking \/ (registered /\ visibility = "hidden"))
    /\ UNCHANGED <<engineVars, registered, controller, installing, waiting,
                   skipRequested, banner, btnDisabled, clicks, posted, racing,
                   dataVerified, controllerChangeFired, reloaded>>

\* registration.update() finds a new worker: updatefound, statechange
\* listener attached to registration.installing
UpdateFound ==
    /\ PageAlive
    /\ checking
    /\ ~installing
    /\ checking' = FALSE
    /\ installing' = TRUE
    /\ UNCHANGED <<engineVars, registered, controller, waiting, skipRequested,
                   visibility, banner, btnDisabled, clicks, posted, racing,
                   dataVerified, controllerChangeFired, reloaded>>

\* registration.update() finds nothing new, or fails offline
UpdateNotFound ==
    /\ PageAlive
    /\ checking
    /\ checking' = FALSE
    /\ UNCHANGED <<engineVars, registered, controller, installing, waiting,
                   skipRequested, visibility, banner, btnDisabled, clicks,
                   posted, racing, dataVerified, controllerChangeFired,
                   reloaded>>

\* the listener posting skipWaiting as soon as the new worker is installed
StateChangeInstalled_AutoSkip ==
    /\ PageAlive
    /\ installing
    /\ installing' = FALSE
    /\ waiting' = TRUE
    /\ skipRequested' = TRUE
    /\ posted' = posted + 1
    /\ banner' = (banner \/ controller)
    /\ UNCHANGED <<engineVars, registered, controller, checking, visibility,
                   btnDisabled, clicks, racing, dataVerified,
                   controllerChangeFired, reloaded>>

\* statechange to 'installed': the new worker takes the waiting slot (a
\* worker waiting before it is discarded) and the banner is shown when the
\* page has a controller
StateChangeInstalled ==
    /\ PageAlive
    /\ installing
    /\ installing' = FALSE
    /\ waiting' = TRUE
    /\ skipRequested' = FALSE
    /\ banner' = (banner \/ controller)
    /\ UNCHANGED <<engineVars, registered, controller, checking, visibility,
                   btnDisabled, clicks, posted, racing, dataVerified,
                   controllerChangeFired, reloaded>>

\* statechange to 'redundant': the installation failed
StateChangeRedundant ==
    /\ PageAlive
    /\ installing
    /\ installing' = FALSE
    /\ UNCHANGED <<engineVars, registered, controller, waiting, skipRequested,
                   checking, visibility, banner, btnDisabled, clicks, posted,
                   racing, dataVerified, controllerChangeFired, reloaded>>

ClickEnabled ==
    /\ PageAlive
    /\ banner
    /\ ~btnDisabled
    /\ clicks < MaxClicks

\* click on 'Aggiorna ora' up to the first await, or to the direct reload
ClickUpdate ==
    /\ ClickEnabled
    /\ clicks' = clicks + 1
    /\ btnDisabled' = TRUE
    /\ dataVerified' = TRUE
    /\ IF waiting
       THEN /\ posted' = posted + 1
            /\ skipRequested' = TRUE
            /\ racing' = racing + 1
            /\ UNCHANGED reloaded
       ELSE /\ reloaded' = "noWaiting"
            /\ UNCHANGED <<posted, skipRequested, racing>>
    /\ UNCHANGED <<engineVars, registered, controller, installing, waiting,
                   checking, visibility, banner, controllerChangeFired>>

\* click on 'Aggiorna ora' when a step after the first data check throws:
\* the catch branch reloads
ClickUpdateThrows ==
    /\ ClickEnabled
    /\ clicks' = clicks + 1
    /\ btnDisabled' = TRUE
    /\ dataVerified' = TRUE
    /\ reloaded' = "catch"
    /\ UNCHANGED <<engineVars, registered, controller, installing, waiting,
                   skipRequested, checking, visibility, banner, posted,
                   racing, controllerChangeFired>>

\* click on 'Dopo': the banner and its buttons leave the document
ClickDismiss ==
    /\ PageAlive
    /\ banner
    /\ banner' = FALSE
    /\ btnDisabled' = FALSE
    /\ UNCHANGED <<engineVars, registered, controller, installing, waiting,
                   skipRequested, checking, visibility, clicks, posted,
                   racing, dataVerified, controllerChangeFired, reloaded>>

\* what runs when controllerchange is dispatched: every suspended handler
\* resumes, the first one verifies the data again and reloads
ControllerChange ==
    /\ controllerChangeFired' = TRUE
    /\ IF racing > 0
       THEN dataVerified' = TRUE /\ reloaded' = "controllerchange"
       ELSE UNCHANGED <<dataVerified, reloaded>>

\* the timer expires without doing anything
TimeoutFires_NoReload ==
    /\ PageAlive
    /\ racing > 0
    /\ racing' = racing - 1
    /\ UNCHANGED <<engineVars, registered, controller, installing, waiting,
                   skipRequested, checking, visibility, banner, btnDisabled,
                   clicks, posted, dataVerified, controllerChangeFired,
                   reloaded>>

\* the 5-second timer of a suspended handler expires first: the race
\* rejects, the rejection is logged, the data is verified, the page reloads
TimeoutFires ==
    /\ PageAlive
    /\ racing > 0
    /\ dataVerified' = TRUE
    /\ reloaded' = "timeout"
    /\ UNCHANGED <<engineVars, registered, controller, installing, waiting,
                   skipRequested, checking, visibility, banner, btnDisabled,
                   clicks, posted, racing, controllerChangeFired>>

\* service-worker.js: the waiting worker handles the skipWaiting message,
\* activates and claims the page
SkipWaitingActivates ==
    /\ PageAlive
    /\ waiting
    /\ skipRequested
    /\ waiting' = FALSE
    /\ skipRequested' = FALSE
    /\ controller' = TRUE
    /\ ControllerChange
    /\ UNCHANGED <<engineVars, registered, installing, checking, visibility,
                   banner, btnDisabled, clicks, posted, racing>>

\* the waiting worker activates without a message of this page: no older
\* worker is active, or another tab asked for it
ActivatesUnasked ==
    /\ PageAlive
    /\ waiting
    /\ ~skipRequested
    /\ waiting' = FALSE
    /\ controller' = TRUE
    /\ ControllerChange
    /\ UNCHANGED <<engineVars, registered, installing, skipRequested,
                   checking, visibility, banner, btnDisabled, clicks, posted,
                   racing>>

NextUpdate ==
    \/ RegisterServiceWorker
    \/ VisibilityChange
    \/ UpdateFound
    \/ UpdateNotFound
    \/ StateChangeInstalled
    \/ StateChangeRedundant
    \/ ClickUpdate
    \/ ClickUpdateThrows
    \/ ClickDismiss
    \/ TimeoutFires
    \/ SkipWaitingActivates
    \/ ActivatesUnasked

SpecUpdate == InitUpdate /\ [][NextUpdate]_vars

\* a timer that was set expires while the page lives
SpecUpdateFair == SpecUpdate /\ WF_vars(TimeoutFires)

-----------------------------------------------------------------------------
(* C16: in the update flow started by a click on 'Aggiorna ora' the page   *)
(* is reloaded only after the data-integrity check has run and the new     *)
(* worker has taken control: no reload runs before a controllerchange      *)
(* event has fired.                                                        *)
C16_ReloadAfterControllerChange ==
    (reloaded # "no") => (dataVerified /\ controllerChangeFired)

(* C17: the page posts skipWaiting only in the step of a click on          *)
(* 'Aggiorna ora', and only to a worker waiting at that moment: finding a  *)
(* new installed worker, a worker waiting at load, a visibility change and *)
(* an update check post nothing, they at most show the banner.             *)
C17_SkipWaitingOnlyOnClick ==
    [][(posted' # posted)
          => /\ posted' = posted + 1
             /\ clicks' = clicks + 1
             /\ banner /\ ~btnDisabled
             /\ waiting
             /\ waiting' /\ skipRequested']_vars

\* a worker found waiting at load, its banner clicked, one message posted
C17_Witness ==
    /\ registered
    /\ clicks = 1
    /\ posted = 1
    /\ waiting /\ skipRequested
    /\ racing = 1

====
